---- MODULE Spec2Model ----
(***************************************************************************)
(* merge_sites.py: consensus of classified peaks among samples.            *)
(*                                                                         *)
(* main = filter_peaks -> multi_intersect (multiinter, merge, one          *)
(* map_peak_class per input file, AnnotatedPeak vote) -> intersect ->      *)
(* cleanup.  Everything lives on one chromosome; a file is the sequence of *)
(* its lines, a line is a record of the columns the program reads.         *)
(*                                                                         *)
(* A peak name "<base>:<class>" is the sequence of its ":"-separated       *)
(* tokens, a file name the sequence of its tokens with the delimiters      *)
(* "." and "_" as tokens of their own.  A collapsed column written by      *)
(* bedtools map is the sequence of the names it joins with ","; the null   *)
(* column "." is the empty sequence.                                       *)
(***************************************************************************)
EXTENDS Integers, Sequences, FiniteSets, TLC

VARIABLES
    files,      \* args.files: the input file names, in command-line order
    input,      \* contents of the input files: file name -> peaks
    classes,    \* args.classes
    cutoff,     \* args.cutoff
    exons,      \* contents of args.exons: a set of exon lines
    pc,         \* position of main
    fidx,       \* filter_peaks: index of the file the loop is at
    tmps,       \* filter_peaks: sample -> path of its filtered temp file
    tmpfs,      \* the temp files that exist: path -> lines
    nextTmp,    \* the path tempfile.mkstemp returns next
    clusterTmp, \* multi_intersect: tmp of line 96
    finalTmp,   \* multi_intersect: tmp of line 114, returned as peak_regions
    annotated,  \* multi_intersect: annotated_peaks, the working file
    sidx,       \* multi_intersect: index of the sample_file the loop is at
    mapTmp,     \* map_peak_class: tmp
    out         \* the lines printed to standard output

vars == <<files, input, classes, cutoff, exons, pc, fidx, tmps, tmpfs, nextTmp,
          clusterTmp, finalTmp, annotated, sidx, mapTmp, out>>

-----------------------------------------------------------------------------
(* Bounds of the model and constants of the program *)

\* coordinates are 0..MaxPos
MaxPos == 9
\* the most peaks an input file holds
MaxPeaks == 2
\* the most exon lines the exon file holds
MaxExons == 2
\* the number of samples that vote
VoteFiles == 3
\* the peaks of the cutoff runs lie in 0..CutoffSpan
CutoffSpan == 5
\* bedtools merge -d 2
MergeGap == 2

-----------------------------------------------------------------------------
(* Generic helpers *)

Range(s) == {s[i] : i \in DOMAIN s}

Last(s) == s[Len(s)]

\* the function f without the key k
Without(f, k) == [x \in (DOMAIN f) \ {k} |-> f[x]]

\* the function f with key k set to v
With(f, k, v) == [x \in (DOMAIN f) \cup {k} |-> IF x = k THEN v ELSE f[x]]

\* the subsequence of s whose elements are in keep, in order
RECURSIVE SelectSeqBy(_, _)
SelectSeqBy(s, keep) ==
    IF s = <<>> THEN <<>>
    ELSE IF Head(s) \in keep THEN <<Head(s)>> \o SelectSeqBy(Tail(s), keep)
    ELSE SelectSeqBy(Tail(s), keep)

\* how many elements of s equal x: list.count
RECURSIVE Count(_, _)
Count(s, x) ==
    IF s = <<>> THEN 0
    ELSE (IF Head(s) = x THEN 1 ELSE 0) + Count(Tail(s), x)

\* all orderings of the finite set S
RECURSIVE Perms(_)
Perms(S) ==
    IF S = {} THEN {<<>>}
    ELSE UNION {{<<x>> \o p : p \in Perms(S \ {x})} : x \in S}

-----------------------------------------------------------------------------
(* Text conversions *)

\* str.split(d)[0]: the tokens of s before the first delimiter d
RECURSIVE SplitFirst(_, _)
SplitFirst(s, d) ==
    IF s = <<>> \/ Head(s) = d THEN <<>>
    ELSE <<Head(s)>> \o SplitFirst(Tail(s), d)

\* op.basename(f).split(".")[0].split("_")[0]
SampleOf(f) == SplitFirst(SplitFirst(f, "."), "_")

\* int(tok) succeeds
IsInt(tok) == tok \in {"1", "2", "3", "4"}

\* int(tok)
IntOf(tok) ==
    CASE tok = "1" -> 1
      [] tok = "2" -> 2
      [] tok = "3" -> 3
      [] tok = "4" -> 4

\* l['name'].split(":")[1]
ClassField(name) == name[2]

\* name.rsplit(':', 1)[-1]
ClassSuffix(name) == Last(name)

-----------------------------------------------------------------------------
(* The interval engine (bedtools), as the program uses it *)

\* a and b share at least one base pair
Overlaps(a, b) == a.start < b.stop /\ b.start < a.stop

\* the samples with a peak covering position pos
Covering(peaksBySample, pos) ==
    {s \in DOMAIN peaksBySample :
        \E i \in DOMAIN peaksBySample[s] :
            /\ peaksBySample[s][i].start <= pos
            /\ pos < peaksBySample[s][i].stop}

\* where the span of constant coverage that starts at s ends
ClusterEnd(peaksBySample, s) ==
    CHOOSE e \in (s + 1)..MaxPos :
        /\ e = MaxPos \/ Covering(peaksBySample, e) # Covering(peaksBySample, s)
        /\ \A m \in (s + 1)..(e - 1) :
              Covering(peaksBySample, m) = Covering(peaksBySample, s)

\* bedtools multiinter, from position s on: one row per maximal span covered
\* by the same non-empty set of files, num = how many files cover it
RECURSIVE MultiInterFrom(_, _)
MultiInterFrom(peaksBySample, s) ==
    IF s >= MaxPos THEN <<>>
    ELSE LET e == ClusterEnd(peaksBySample, s)
             cov == Covering(peaksBySample, s)
         IN  (IF cov = {} THEN <<>>
              ELSE <<[start |-> s, end |-> e, num |-> Cardinality(cov)]>>)
             \o MultiInterFrom(peaksBySample, e)

BedtoolsMultiInter(peaksBySample) == MultiInterFrom(peaksBySample, 0)

\* bedtools merge -d gap, cur being the region under construction
RECURSIVE MergeFrom(_, _, _)
MergeFrom(cur, rest, gap) ==
    IF rest = <<>> THEN <<cur>>
    ELSE IF Head(rest).start - cur.stop <= gap
         THEN MergeFrom([start |-> cur.start,
                         stop |-> IF Head(rest).stop > cur.stop
                                  THEN Head(rest).stop ELSE cur.stop],
                        Tail(rest), gap)
         ELSE <<cur>> \o MergeFrom(Head(rest), Tail(rest), gap)

BedtoolsMerge(rows, gap) ==
    IF rows = <<>> THEN <<>> ELSE MergeFrom(Head(rows), Tail(rows), gap)

\* -c 4 -o collapse: the names of the peaks of b that overlap a, in file order
RECURSIVE Collapse(_, _)
Collapse(a, b) ==
    IF b = <<>> THEN <<>>
    ELSE (IF Overlaps(a, Head(b)) THEN <<Head(b).name>> ELSE <<>>)
         \o Collapse(a, Tail(b))

\* bedtools map -c 4 -o collapse -a a -b b: every row of a with one more column
BedtoolsMap(a, b) ==
    [i \in DOMAIN a |-> [a[i] EXCEPT !.cols = @ \o <<Collapse(a[i], b)>>]]

\* bedtools intersect -wb -a peaks -b exons: one row per overlapping pair, the
\* overlapping part of the peak followed by the exon
BedtoolsIntersect(peaks, exonSet) ==
    {[start |-> IF e.start > peaks[i].start THEN e.start ELSE peaks[i].start,
      stop |-> IF e.stop < peaks[i].stop THEN e.stop ELSE peaks[i].stop,
      id |-> peaks[i].id, cls |-> peaks[i].cls,
      start_ |-> e.start, stop_ |-> e.stop,
      gene |-> e.gene, strand |-> e.strand] :
        <<i, e>> \in {ie \in (DOMAIN peaks) \X exonSet : Overlaps(peaks[ie[1]], ie[2])}}

StrandRank(strand) == IF strand = "+" THEN 0 ELSE 1

\* sort -k1,1 -k8,8 -k2,2n: gene, then start, then the whole line
SortKey(r) ==
    <<r.gene, r.start, r.stop, r.id, r.start_, r.stop_, StrandRank(r.strand)>>

LexLess(k1, k2) ==
    \E i \in DOMAIN k1 : k1[i] < k2[i] /\ \A j \in 1..(i - 1) : k1[j] = k2[j]

RECURSIVE SortRows(_)
SortRows(S) ==
    IF S = {} THEN <<>>
    ELSE LET m == CHOOSE r \in S :
                      \A q \in S \ {r} : LexLess(SortKey(r), SortKey(q))
         IN  <<m>> \o SortRows(S \ {m})

-----------------------------------------------------------------------------
(* The program's functions *)

\* filter_peaks, lines 43-46: the lines of one file that are written, up to the
\* first line whose class is no integer
RECURSIVE FilterLines(_, _)
FilterLines(peaks, accepted) ==
    IF peaks = <<>> THEN <<>>
    ELSE IF ~IsInt(ClassField(Head(peaks).name)) THEN <<>>
    ELSE (IF IntOf(ClassField(Head(peaks).name)) \notin accepted THEN <<>>
          ELSE <<Head(peaks)>>)
         \o FilterLines(Tail(peaks), accepted)

\* filter_peaks, line 44: int() raises on some line of the file
Malformed(peaks) ==
    \E i \in DOMAIN peaks : ~IsInt(ClassField(peaks[i].name))

\* line 101 with the comparison turned round
SupportAtMost(num, n) == ~(num > n)

\* multi_intersect, line 101: the clusters that are written
SupportKept(num, n) == ~(num < n)

\* multi_intersect, lines 100-102
RECURSIVE FilterClusters(_, _)
FilterClusters(rows, n) ==
    IF rows = <<>> THEN <<>>
    ELSE (IF SupportKept(Head(rows).num, n)
          THEN <<[start |-> Head(rows).start, stop |-> Head(rows).end]>>
          ELSE <<>>)
         \o FilterClusters(Tail(rows), n)

\* multi_intersect, lines 108-109: the merged regions, named peak_0, peak_1, ...
MergedLines(rows) ==
    [i \in DOMAIN rows |->
        [start |-> rows[i].start, stop |-> rows[i].stop, id |-> i - 1,
         cols |-> <<>>]]

\* multi_intersect, lines 96-109: the consensus regions of the filtered samples
ConsensusRegions(peaksBySample, n) ==
    MergedLines(BedtoolsMerge(
        FilterClusters(BedtoolsMultiInter(peaksBySample), n), MergeGap))

\* line 86 off by one
NoOverlapOffByOne(lines) == Len(lines) <= 1

\* map_peak_class, line 86: file_len(tmp) < 1
NoOverlap(lines) == Len(lines) < 1

\* AnnotatedPeak.__init__, lines 20-24: one entry per column that is not null,
\* the text after the last ":" of the column
RECURSIVE Observed(_)
Observed(cols) ==
    IF cols = <<>> THEN <<>>
    ELSE (IF Head(cols) = <<>> THEN <<>>
          ELSE <<ClassSuffix(Last(Head(cols)))>>)
         \o Observed(Tail(cols))

\* min in the place of max: the first element with the smallest count
RECURSIVE MinFrom(_, _, _)
MinFrom(best, rest, observed) ==
    IF rest = <<>> THEN best
    ELSE IF Count(observed, Head(rest)) < Count(observed, best)
         THEN MinFrom(Head(rest), Tail(rest), observed)
         ELSE MinFrom(best, Tail(rest), observed)

\* max(iter, key=observed.count): the first element with the largest count
RECURSIVE MaxFrom(_, _, _)
MaxFrom(best, rest, observed) ==
    IF rest = <<>> THEN best
    ELSE IF Count(observed, Head(rest)) > Count(observed, best)
         THEN MaxFrom(Head(rest), Tail(rest), observed)
         ELSE MaxFrom(best, Tail(rest), observed)

\* AnnotatedPeak.__init__, line 27: max(set(observed), key=observed.count),
\* the set being iterated in the order its elements have in setOrder
MostAbundant(observed, setOrder) ==
    LET iter == SelectSeqBy(setOrder, Range(observed))
    IN  MaxFrom(Head(iter), Tail(iter), observed)

\* multi_intersect, lines 118-121: the line written for one annotated peak
AnnotatedLine(row, setOrder) ==
    [start |-> row.start, stop |-> row.stop, id |-> row.id,
     cls |-> MostAbundant(Observed(row.cols), setOrder)]

\* grouper: the runs of consecutive rows with the same gene
RECURSIVE Grouper(_)
Grouper(rows) ==
    IF rows = <<>> THEN <<>>
    ELSE LET n == CHOOSE k \in 1..Len(rows) :
                      /\ \A i \in 1..k : rows[i].gene = rows[1].gene
                      /\ k = Len(rows) \/ rows[k + 1].gene # rows[1].gene
         IN  <<SubSeq(rows, 1, n)>> \o Grouper(SubSeq(rows, n + 1, Len(rows)))

\* the key of line 168: ret_item(t, cols, 'peak')
PeakKey(r) == <<r.id, r.cls>>

\* unique_everseen that never looks at seen
EverySeen(rows, seen) == rows

\* unique_everseen with a key, lines 147-151
RECURSIVE UniqueEverseen(_, _)
UniqueEverseen(rows, seen) ==
    IF rows = <<>> THEN <<>>
    ELSE IF PeakKey(Head(rows)) \in seen THEN UniqueEverseen(Tail(rows), seen)
    ELSE <<Head(rows)>> \o UniqueEverseen(Tail(rows), seen \cup {PeakKey(Head(rows))})

\* get_out: the printed line; id is the peak the line came from, which is
\* not printed
GetOut(l, n) ==
    [start |-> l.start, stop |-> l.stop, pclass |-> l.cls, gene |-> l.gene,
     count |-> n, strand |-> l.strand, id |-> l.id]

\* intersect, lines 168-176: the lines printed for the rows that are not on
\* the negative strand, i being the index enumerate gives the row
RECURSIVE PositiveLines(_, _)
PositiveLines(rows, i) ==
    IF rows = <<>> THEN <<>>
    ELSE (IF Head(rows).strand = "-" THEN <<>> ELSE <<GetOut(Head(rows), i)>>)
         \o PositiveLines(Tail(rows), i + 1)

\* intersect, lines 171-174: negs
Negs(rows) == SelectSeqBy(rows, {r \in Range(rows) : r.strand = "-"})

\* line 177 counting up from 1
NegOrdinalUp(negs, i) == i

\* intersect, line 177: count(len(negs), -1), the number given to negs[i]
NegOrdinal(negs, i) == Len(negs) - (i - 1)

\* intersect, lines 177-178
NegativeLines(negs) ==
    [i \in DOMAIN negs |-> GetOut(negs[i], NegOrdinal(negs, i))]

\* intersect, lines 167-178: the lines printed for one gene group
GroupLines(g) ==
    LET uniq == UniqueEverseen(g, {})
    IN  PositiveLines(uniq, 1) \o NegativeLines(Negs(uniq))

\* intersect, lines 166-178
RECURSIVE IntersectLines(_)
IntersectLines(groups) ==
    IF groups = <<>> THEN <<>>
    ELSE GroupLines(Head(groups)) \o IntersectLines(Tail(groups))

-----------------------------------------------------------------------------
(* The steps of main *)

\* the files bedtools multiinter is given: slopfiles.values(), by sample
FilteredBySample == [s \in DOMAIN tmps |-> tmpfs[tmps[s]]]

\* filter_peaks, lines 39-48: one iteration of the loop over the files
FilterFile ==
    /\ pc = "filter"
    /\ LET f == files[fidx]
           tmp == nextTmp
       IN  /\ nextTmp' = nextTmp + 1
           /\ tmpfs' = With(tmpfs, tmp, FilterLines(input[f], classes))
           /\ IF Malformed(input[f])
              THEN /\ pc' = "crashed"
                   /\ UNCHANGED <<tmps, fidx>>
              ELSE /\ tmps' = With(tmps, SampleOf(f), tmp)
                   /\ fidx' = fidx + 1
                   /\ pc' = IF fidx = Len(files) THEN "multiinter" ELSE "filter"
    /\ UNCHANGED <<files, input, classes, cutoff, exons, clusterTmp, finalTmp,
                   annotated, sidx, mapTmp, out>>

\* multi_intersect, lines 96-103: the clusters with enough support
MultiInter ==
    /\ pc = "multiinter"
    /\ clusterTmp' = nextTmp
    /\ nextTmp' = nextTmp + 1
    /\ tmpfs' = With(tmpfs, nextTmp,
                     FilterClusters(BedtoolsMultiInter(FilteredBySample), cutoff))
    /\ pc' = "merge"
    /\ UNCHANGED <<files, input, classes, cutoff, exons, fidx, tmps, finalTmp,
                   annotated, sidx, mapTmp, out>>

\* multi_intersect, lines 105-115: the merged regions, the cluster file
\* removed, the file of the final result created
Merge ==
    /\ pc = "merge"
    /\ LET merged_tmp == nextTmp
           tmp == nextTmp + 1
           lines == MergedLines(BedtoolsMerge(tmpfs[clusterTmp], MergeGap))
       IN  /\ tmpfs' = With(With(Without(tmpfs, clusterTmp), merged_tmp, lines),
                            tmp, <<>>)
           /\ annotated' = merged_tmp
           /\ finalTmp' = tmp
           /\ nextTmp' = nextTmp + 2
    /\ sidx' = 1
    /\ pc' = "map"
    /\ UNCHANGED <<files, input, classes, cutoff, exons, fidx, tmps, clusterTmp,
                   mapTmp, out>>

\* map_peak_class, lines 81-84: bedtools map into a new temp file.  The file
\* is left empty when the call fails (sp.call does not look at the exit
\* status) and when bedtools writes nothing for want of any overlap (line 85)
MapCall ==
    /\ pc = "map"
    /\ \E ok \in BOOLEAN :
          tmpfs' = With(tmpfs, nextTmp,
                        IF ok THEN BedtoolsMap(tmpfs[annotated], input[files[sidx]])
                        ELSE <<>>)
    /\ mapTmp' = nextTmp
    /\ nextTmp' = nextTmp + 1
    /\ pc' = "maplen"
    /\ UNCHANGED <<files, input, classes, cutoff, exons, fidx, tmps, clusterTmp,
                   finalTmp, annotated, sidx, out>>

\* map_peak_class, lines 86-91, and the loop of lines 116-117
MapReturn ==
    /\ pc = "maplen"
    /\ IF NoOverlap(tmpfs[mapTmp])
       THEN /\ tmpfs' = Without(tmpfs, mapTmp)
            /\ annotated' = annotated
       ELSE /\ tmpfs' = Without(tmpfs, annotated)
            /\ annotated' = mapTmp
    /\ sidx' = sidx + 1
    /\ pc' = IF sidx = Len(files) THEN "annotate" ELSE "map"
    /\ UNCHANGED <<files, input, classes, cutoff, exons, fidx, tmps, nextTmp,
                   clusterTmp, finalTmp, mapTmp, out>>

\* the classes that are voted for somewhere in the working file
VotedClasses ==
    UNION {Range(Observed(tmpfs[annotated][i].cols)) : i \in DOMAIN tmpfs[annotated]}

\* multi_intersect, lines 118-123: the vote of every region.  max() of an
\* empty set raises; the order a set is iterated in is the interpreter's
Annotate ==
    /\ pc = "annotate"
    /\ LET rows == tmpfs[annotated]
       IN  IF \E i \in DOMAIN rows : Observed(rows[i].cols) = <<>>
           THEN /\ pc' = "crashed"
                /\ UNCHANGED tmpfs
           ELSE /\ \E setOrder \in Perms(VotedClasses) :
                      tmpfs' = [tmpfs EXCEPT ![finalTmp] =
                                   [i \in DOMAIN rows |-> AnnotatedLine(rows[i], setOrder)]]
                /\ pc' = "intersect"
    /\ UNCHANGED <<files, input, classes, cutoff, exons, fidx, tmps, nextTmp,
                   clusterTmp, finalTmp, annotated, sidx, mapTmp, out>>

\* intersect, lines 162-178
Intersect ==
    /\ pc = "intersect"
    /\ out' = IntersectLines(Grouper(SortRows(BedtoolsIntersect(tmpfs[finalTmp], exons))))
    /\ pc' = "cleanup"
    /\ UNCHANGED <<files, input, classes, cutoff, exons, fidx, tmps, tmpfs, nextTmp,
                   clusterTmp, finalTmp, annotated, sidx, mapTmp>>

\* cleanup, lines 63-70, as main calls it on line 185
Cleanup ==
    /\ pc = "cleanup"
    /\ tmpfs' = [x \in (DOMAIN tmpfs) \ (Range(tmps) \cup {finalTmp}) |-> tmpfs[x]]
    /\ pc' = "done"
    /\ UNCHANGED <<files, input, classes, cutoff, exons, fidx, tmps, nextTmp,
                   clusterTmp, finalTmp, annotated, sidx, mapTmp, out>>

\* a bedtools command read through a pipe (lines 99, 105, 164) ends with an
\* error: the run ends there, with the temp file of lines 96 or 107 created
EngineFailure ==
    /\ pc \in {"multiinter", "merge", "intersect"}
    /\ IF pc = "intersect"
       THEN UNCHANGED <<tmpfs, nextTmp>>
       ELSE /\ tmpfs' = With(tmpfs, nextTmp, <<>>)
            /\ nextTmp' = nextTmp + 1
    /\ pc' = "crashed"
    /\ UNCHANGED <<files, input, classes, cutoff, exons, fidx, tmps, clusterTmp,
                   finalTmp, annotated, sidx, mapTmp, out>>

Next ==
    \/ FilterFile
    \/ MultiInter
    \/ Merge
    \/ MapCall
    \/ MapReturn
    \/ Annotate
    \/ Intersect
    \/ Cleanup
    \/ EngineFailure

-----------------------------------------------------------------------------
(* The inputs of a run *)

FileA == <<"a", ".", "bed">>
FileA2 == <<"a", "_", "2", ".", "bed">>
FileB == <<"b", ".", "bed">>
FileC == <<"c", ".", "bed">>

\* file names with distinct samples
SampleNames == <<"a", "b", "c", "d", "e">>
FileOf(i) == <<SampleNames[i], ".", "bed">>

Peak(s, e, tok) == [start |-> s, stop |-> e, name |-> <<"p", tok>>]

Exon(s, e, g, str) == [start |-> s, stop |-> e, gene |-> g, strand |-> str]

\* the peak files of at most n lines over the peaks P, sorted by start, no
\* two peaks starting at the same place
PeakFiles(P, n) ==
    {l \in UNION {[1..k -> P] : k \in 0..n} :
        \A i \in 1..(Len(l) - 1) : l[i].start < l[i + 1].start}

\* the peak files of at most n lines over the peaks P, sorted and disjoint
DisjointPeakFiles(P, n) ==
    {l \in UNION {[1..k -> P] : k \in 0..n} :
        \A i \in 1..(Len(l) - 1) : l[i].stop <= l[i + 1].start}

\* the sets of at most n elements of S
SetsUpTo(S, n) == {T \in SUBSET S : Cardinality(T) <= n}

\* the state main starts in: no temp file yet, the path variables not yet
\* assigned (0 is no path)
Start ==
    /\ pc = "filter"
    /\ fidx = 1
    /\ tmps = <<>>
    /\ tmpfs = <<>>
    /\ nextTmp = 1
    /\ clusterTmp = 0
    /\ finalTmp = 0
    /\ annotated = 0
    /\ sidx = 1
    /\ mapTmp = 0
    /\ out = <<>>

\* one or two files, of the same sample or not, with overlapping peaks of
\* classes 1 and 2 and codes that are no integer
Init ==
    /\ files \in {<<FileA>>, <<FileA, FileB>>, <<FileA, FileA2>>}
    /\ input \in [Range(files) ->
                    PeakFiles({Peak(iv[1], iv[2], tok) :
                                  iv \in {<<0, 2>>, <<1, 3>>, <<2, 4>>},
                                  tok \in {"1", "2", "x"}},
                              MaxPeaks)]
    /\ classes \in {{1}, {1, 2}}
    /\ cutoff \in 1..2
    /\ exons \in {{Exon(0, 4, 1, "+")}}
    /\ Start

Spec == Init /\ [][Next]_vars

\* VoteFiles samples, each with at most one peak of any class on the same
\* place, every class accepted
InitVote ==
    /\ files = [i \in 1..VoteFiles |-> FileOf(i)]
    /\ input \in [Range(files) ->
                    PeakFiles({Peak(0, 2, tok) : tok \in {"1", "2", "3", "4"}}, 1)]
    /\ classes = {1, 2, 3, 4}
    /\ cutoff = 1
    /\ exons = {Exon(0, 3, 1, "+")}
    /\ Start

SpecVote == InitVote /\ [][Next]_vars

\* one sample with up to three regions of class 1, and up to MaxExons exons
\* of two genes on either strand
InitGene ==
    /\ files = <<FileA>>
    /\ input \in [Range(files) ->
                    DisjointPeakFiles({Peak(0, 1, "1"), Peak(4, 5, "1"), Peak(8, 9, "1")}, 3)
                        \ {<<>>}]
    /\ classes = {1}
    /\ cutoff = 1
    /\ exons \in SetsUpTo({Exon(iv[1], iv[2], g, str) :
                              iv \in {<<0, 9>>, <<0, 1>>, <<4, 5>>, <<8, 9>>, <<0, 5>>},
                              g \in 1..2, str \in {"+", "-"}},
                          MaxExons)
    /\ Start

SpecGene == InitGene /\ [][Next]_vars

\* the intervals within 0..n
Intervals(n) == {iv \in (0..n) \X (0..n) : iv[1] < iv[2]}

\* three samples of class 1: two with one peak, one with up to two
InitCutoff ==
    /\ files = <<FileA, FileB, FileC>>
    /\ \E a, b \in Intervals(CutoffSpan) :
       \E c \in DisjointPeakFiles({Peak(iv[1], iv[2], "1") : iv \in Intervals(CutoffSpan)},
                                  2) :
          input = (FileA :> <<Peak(a[1], a[2], "1")>>)
                  @@ (FileB :> <<Peak(b[1], b[2], "1")>>)
                  @@ (FileC :> c)
    /\ classes = {1}
    /\ cutoff \in 1..3
    /\ exons = {}
    /\ Start

\* the steps up to the consensus regions
NextConsensus ==
    \/ FilterFile
    \/ MultiInter
    \/ Merge
    \/ EngineFailure

SpecCutoff == InitCutoff /\ [][NextConsensus]_vars

-----------------------------------------------------------------------------
(* What the properties speak of *)

\* main is past intersect
Printed == pc \in {"cleanup", "done"}

\* the printed lines of gene g on strand str, in the order printed
GeneLines(g, str) ==
    SelectSeqBy(out, {l \in Range(out) : l.gene = g /\ l.strand = str})

Genes == {e.gene : e \in exons}

Ordinals(lines) == {lines[i].count : i \in DOMAIN lines}

\* the rows bedtools intersect gives for the final file
OverlapRows == BedtoolsIntersect(tmpfs[finalTmp], exons)

RECURSIVE SumSeq(_)
SumSeq(s) == IF s = <<>> THEN 0 ELSE Head(s) + SumSeq(Tail(s))

\* how many peaks of the input files overlap the region
OverlappingPeaks(row) ==
    SumSeq([k \in DOMAIN files |-> Len(Collapse(row, input[files[k]]))])

\* the classes with the largest count among the votes
Tied(observed) ==
    {c \in Range(observed) :
        \A d \in Range(observed) : Count(observed, c) >= Count(observed, d)}

\* the tied class that comes first among the votes
FirstEncountered(observed) ==
    observed[CHOOSE i \in DOMAIN observed :
                 /\ observed[i] \in Tied(observed)
                 /\ \A j \in 1..(i - 1) : observed[j] \notin Tied(observed)]

\* the class whose running count is the first to reach the largest count
FirstReachingMax(observed) ==
    observed[CHOOSE i \in DOMAIN observed :
                 /\ Count(SubSeq(observed, 1, i), observed[i])
                        = Count(observed, FirstEncountered(observed))
                 /\ \A j \in 1..(i - 1) :
                        Count(SubSeq(observed, 1, j), observed[j])
                            < Count(observed, FirstEncountered(observed))]

\* the first class of the order that is in S
FirstOf(order, S) == Head(SelectSeqBy(order, S))

\* two of the files have the same sample id
DuplicateSample ==
    \E i, j \in DOMAIN files : i # j /\ SampleOf(files[i]) = SampleOf(files[j])

\* every sample's column was added to the working file
AllMapped == \A i \in DOMAIN tmpfs[annotated] :
                 Len(tmpfs[annotated][i].cols) = Len(files)

-----------------------------------------------------------------------------
(* C1 *)

\* C1: every printed line carries a class (the c<class> part of its name) of
\* the accepted set given to filter_peaks.
C1_EmittedClassAccepted ==
    \A i \in DOMAIN out : IsInt(out[i].pclass) /\ IntOf(out[i].pclass) \in classes

-----------------------------------------------------------------------------
(* C2 *)

\* C2: in every gene group, the ordinals printed for its p positive-strand
\* rows are exactly 1..p and those printed for its n negative-strand rows are
\* exactly 1..n.
C2_OrdinalPartition ==
    Printed =>
        \A g \in Genes : \A str \in {"+", "-"} :
            Ordinals(GeneLines(g, str)) = 1..Len(GeneLines(g, str))

-----------------------------------------------------------------------------
(* C3 *)

-----------------------------------------------------------------------------
(* C4 *)

\* C4: no two printed lines share the same (gene, region id), and the line
\* printed for a gene and a region is the first row in sort order among the
\* overlap rows of that gene and that region.
C4_RegionDedup ==
    /\ Printed =>
          \A i, j \in DOMAIN out :
              i # j => <<out[i].gene, out[i].id>> # <<out[j].gene, out[j].id>>
    /\ pc = "cleanup" =>
          /\ \A i \in DOMAIN out :
                \E r \in OverlapRows :
                    /\ r.gene = out[i].gene /\ r.id = out[i].id
                    /\ r.start = out[i].start /\ r.stop = out[i].stop
                    /\ r.strand = out[i].strand
                    /\ \A q \in OverlapRows \ {r} :
                          q.gene = r.gene /\ q.id = r.id
                              => LexLess(SortKey(r), SortKey(q))
          /\ \A r \in OverlapRows :
                \E i \in DOMAIN out : out[i].gene = r.gene /\ out[i].id = r.id

\* a region overlapped several exons of one gene, and lines were printed
C4_Witness ==
    /\ pc = "cleanup"
    /\ \E r, q \in OverlapRows : r # q /\ r.gene = q.gene /\ r.id = q.id
    /\ Len(out) > 1

-----------------------------------------------------------------------------
(* C5 *)

\* C5: the votes of a region are one per overlapping sample peak (a sample
\* with m overlapping peaks gives m votes), and the resolved class has the
\* largest count among the votes.
C5_OneVotePerPeak ==
    /\ pc = "annotate" /\ AllMapped =>
          \A i \in DOMAIN tmpfs[annotated] :
              Len(Observed(tmpfs[annotated][i].cols))
                  = OverlappingPeaks(tmpfs[annotated][i])
    /\ pc = "intersect" =>
          \A i \in DOMAIN tmpfs[finalTmp] :
              tmpfs[finalTmp][i].cls \in Tied(Observed(tmpfs[annotated][i].cols))

-----------------------------------------------------------------------------
(* C6 *)

\* C6: a larger cutoff never gives more consensus regions.
C6_RegionCountMonotone ==
    pc = "map" =>
        \A c2 \in (cutoff + 1)..(Len(files) + 1) :
            Len(ConsensusRegions(FilteredBySample, c2)) <= Len(tmpfs[annotated])

\* C6, amended: a larger cutoff never keeps more clusters, and every
\* consensus region it gives lies within a consensus region of the smaller
\* cutoff.
C6_ConsensusShrinks ==
    /\ pc = "merge" =>
          \A c2 \in (cutoff + 1)..(Len(files) + 1) :
              Len(FilterClusters(BedtoolsMultiInter(FilteredBySample), c2))
                  <= Len(tmpfs[clusterTmp])
    /\ pc = "map" =>
          \A c2 \in (cutoff + 1)..(Len(files) + 1) :
              \A r \in Range(ConsensusRegions(FilteredBySample, c2)) :
                  \E q \in Range(tmpfs[annotated]) :
                      q.start <= r.start /\ r.stop <= q.stop

\* a larger cutoff gives more regions than the cutoff of the run
C6_Witness ==
    /\ pc = "map"
    /\ \E c2 \in (cutoff + 1)..(Len(files) + 1) :
          Len(ConsensusRegions(FilteredBySample, c2)) > Len(tmpfs[annotated])

-----------------------------------------------------------------------------
(* C7 *)

\* C7: with two files of the same sample id the run fails before any engine
\* invocation and prints nothing.
C7_DuplicateSampleFails ==
    DuplicateSample =>
        /\ pc \in {"filter", "multiinter", "crashed"}
        /\ pc = "crashed" => fidx <= Len(files)
        /\ out = <<>>

-----------------------------------------------------------------------------
(* C8 *)

\* C8: when the run has ended, with or without an error, no temp file is left.
C8_NoTempFileLeft ==
    pc \in {"done", "crashed"} => DOMAIN tmpfs = {}

-----------------------------------------------------------------------------
(* C9 *)

-----------------------------------------------------------------------------
(* C10 *)

\* C10: when classes tie for the largest count, the resolved class is the
\* tied class first encountered among the votes (the first to reach the
\* largest count).
C10_FirstInsertedWins ==
    pc = "intersect" =>
        \A i \in DOMAIN tmpfs[finalTmp] :
            tmpfs[finalTmp][i].cls
                \in {FirstEncountered(Observed(tmpfs[annotated][i].cols)),
                     FirstReachingMax(Observed(tmpfs[annotated][i].cols))}

\* C10, amended: when classes tie for the largest count, the resolved class
\* is one of the tied classes, the first of them in the order the set of
\* observed classes is iterated in, which is the same for every region of the
\* run and is not the order of the votes.
C10_TiedClassBySetOrder ==
    pc = "intersect" =>
        \E order \in Perms(VotedClasses) :
            \A i \in DOMAIN tmpfs[finalTmp] :
                tmpfs[finalTmp][i].cls
                    = FirstOf(order, Tied(Observed(tmpfs[annotated][i].cols)))

\* three votes for three classes, resolved to the class voted last
C10_Witness ==
    /\ pc = "intersect"
    /\ \E i \in DOMAIN tmpfs[finalTmp] :
          LET observed == Observed(tmpfs[annotated][i].cols)
          IN  /\ Cardinality(Tied(observed)) = 3
              /\ tmpfs[finalTmp][i].cls = Last(observed)

====
